---- MODULE Spec2Model ----
(***************************************************************************)
(* SMS-to-transaction pipeline of the finance tracker: the extraction      *)
(* engine (lib/sms/parser), the identity generator and duplicate checker   *)
(* (lib/sms/processor), the scan orchestrator (lib/sms/scanner) and the    *)
(* scan-and-save service (lib/sms/service) over the IndexedDB stores, the  *)
(* scan buttons of the two pages, the transaction operations of lib/db and *)
(* the scan history kept in localStorage.                                  *)
(*                                                                         *)
(* Strings are sequences of one-character strings, so that toLowerCase,    *)
(* includes, trim, the regular-expression match and parseFloat are         *)
(* computed character by character.                                        *)
(***************************************************************************)
EXTENDS Integers, Sequences, FiniteSets, TLC

VARIABLES
    ruleStore,      \* Rule Store ('smsParserRules'): sequence of rule records
    txStore,        \* Transaction Store ('transactions', keyPath id): set of records
    device,         \* what window.Android.readSMS returns: sequence of messages
    pc,             \* position of the running scanAndSaveTransactions call
    messages,       \* scanSms: const messages
    rules,          \* scanSms: const rules (the snapshot read once per scan)
    idx,            \* scanSms: number of messages the for-loop has visited
    transactions,   \* scanSms: const transactions (the accepted list)
    processedCount, \* scanSms: let processedCount
    skippedCount,   \* scanSms: let skippedCount
    progress,       \* TRANSACTION_IMPORTED events emitted by the running scan
    fates,          \* what became of each message the loop has visited, in order
    saved,          \* scanAndSaveTransactions: accepted transactions written so far
    outcome,        \* toast shown / error thrown by the last finished scan
    broadcasts,     \* number of DATA_IMPORTED batches broadcast
    bridgeCalls,    \* calls of the device bridge made by the running scan
    rulesRead,      \* TRUE once the running scan has read the Rule Store
    issued,         \* every (fields, id) pair generateDeterministicTransactionId returned
    runs,           \* finished scanAndSaveTransactions calls
    text,           \* body of the message given to the extraction engine last
    sender,         \* sender of that message
    result,         \* the ParseResult the extraction engine returned last
    page,           \* the page that is mounted: the dashboard or the scanner view
    cur,            \* number of the component instance that is mounted
    isScanning,     \* useState(false) of the mounted instance
    handlers,       \* the scan handlers that have not returned yet
    clicks,         \* scan requests made so far
    lostWrites,     \* writes whose failure the program caught and swallowed
    range,          \* <<fromDate, toDate>> given to scanAndSaveTransactions
    window,         \* <<from, to>> given to window.Android.readSMS, <<>> before it
    addedEvents,    \* TRANSACTION_ADDED batches broadcast by addTransaction
    history,        \* localStorage 'smsScanHistory': sequence of entries
    calls           \* calls made so far of the storage operations run on their own

vars == <<ruleStore, txStore, device, pc, messages, rules, idx, transactions,
          processedCount, skippedCount, progress, fates, saved, outcome, broadcasts,
          bridgeCalls, rulesRead, issued, runs, text, sender, result,
          page, cur, isScanning, handlers, clicks,
          lostWrites, range, window, addedEvents, history, calls>>

uiVars == <<page, cur, isScanning, handlers, clicks>>

coreVars == <<ruleStore, txStore, device, pc, messages, rules, idx, transactions,
              processedCount, skippedCount, progress, fates, saved, outcome, broadcasts,
              bridgeCalls, rulesRead, issued, runs, text, sender, result,
              lostWrites, range, window, addedEvents, history, calls>>

scanVars == <<pc, messages, rules, idx, transactions, processedCount, skippedCount,
              progress, fates, saved, outcome, broadcasts, bridgeCalls, rulesRead, runs>>

----------------------------------------------------------------------------
(* Bounds of the model *)

MaxRules == 3       \* rules in a list given to extractExpenseFromText
MaxMsgs == 2        \* messages the device bridge returns
MaxUuid == 2        \* size of the pool uuidv4() draws from
MaxRuns == 2        \* consecutive scanAndSaveTransactions calls
MaxClicks == 3      \* scan requests (clicks on a scan button)
MaxMounts == 2      \* navigations between the dashboard and the scanner view
MaxDbCalls == 3     \* calls of the transaction operations of lib/db
MaxHistoryCalls == 52   \* calls of addScanHistoryEntry
MaxLostSaves == 1   \* saves of the scan history that fail

----------------------------------------------------------------------------
(* Strings *)

Range(s) == {s[i] : i \in DOMAIN s}

Lower(c) ==
    CASE c = "V" -> "v" [] c = "B" -> "b" [] c = "O" -> "o" [] c = "T" -> "t"
      [] c = "P" -> "p" [] c = "D" -> "d" [] c = "C" -> "c" [] c = "R" -> "r"
      [] c = "K" -> "k" [] c = "M" -> "m" [] c = "A" -> "a" [] c = "E" -> "e"
      [] OTHER -> c

toLowerCase(s) == [i \in DOMAIN s |-> Lower(s[i])]

\* s.startsWith(p, i-1): p occurs in s at (1-based) position i
OccursAt(s, p, i) ==
    /\ i >= 1
    /\ i + Len(p) - 1 <= Len(s)
    /\ \A k \in 1..Len(p) : s[i + k - 1] = p[k]

includes(s, p) == \E i \in 1..(Len(s) + 1) : OccursAt(s, p, i)

\* 1-based position of the last occurrence of character c, 0 when absent
\* (JavaScript's lastIndexOf is this minus 1)
lastIndexOf(s, c) ==
    IF \E i \in DOMAIN s : s[i] = c
    THEN CHOOSE i \in DOMAIN s : s[i] = c /\ \A j \in DOMAIN s : s[j] = c => j <= i
    ELSE 0

RECURSIVE trimStart(_)
trimStart(s) == IF s # <<>> /\ Head(s) = " " THEN trimStart(Tail(s)) ELSE s

RECURSIVE trimEnd(_)
trimEnd(s) ==
    IF s # <<>> /\ s[Len(s)] = " " THEN trimEnd(SubSeq(s, 1, Len(s) - 1)) ELSE s

trim(s) == trimEnd(trimStart(s))

\* !pattern || pattern.trim() === ''
IsBlank(p) == p = <<>> \/ trim(p) = <<>>

----------------------------------------------------------------------------
(* Regular expressions.  The dialect of the model: a source is a literal,  *)
(* optionally followed by one capturing group written (#), which stands    *)
(* for ([^ ]+).  A source whose parentheses do not balance does not        *)
(* compile: new RegExp throws.                                             *)

Count(s, c) == Cardinality({i \in DOMAIN s : s[i] = c})

\* variant of RegExpCompiles for which every source compiles
RegExpCompilesAlways(src) == TRUE

RegExpCompiles(src) == Count(src, "(") = Count(src, ")")

HasGroup(src) == \E i \in DOMAIN src : src[i] = "("

RegExpLiteral(src) ==
    IF HasGroup(src)
    THEN SubSeq(src, 1, (CHOOSE i \in DOMAIN src :
                            src[i] = "(" /\ \A j \in 1..(i - 1) : src[j] # "(") - 1)
    ELSE src

Fold(s, ignoreCase) == IF ignoreCase THEN toLowerCase(s) ELSE s

\* positions where the compiled expression matches
MatchPositions(str, src, ignoreCase) ==
    LET lit == Fold(RegExpLiteral(src), ignoreCase)
        s == Fold(str, ignoreCase)
    IN {i \in 1..(Len(s) + 1) :
           /\ OccursAt(s, lit, i)
           /\ HasGroup(src) =>
                 (i + Len(lit) <= Len(s) /\ s[i + Len(lit)] # " ")}

\* regex.test(str)
RegExpTest(str, src, ignoreCase) == MatchPositions(str, src, ignoreCase) # {}

RECURSIVE TakeWord(_)
TakeWord(s) ==
    IF s = <<>> \/ Head(s) = " " THEN <<>> ELSE <<Head(s)>> \o TakeWord(Tail(s))

Min(S) == CHOOSE x \in S : \A y \in S : x <= y

\* str.match(regex)[1] of the first match; <<>> when the expression has no
\* group or does not match (match is null, or match[1] is undefined)
MatchGroup1(str, src, ignoreCase) ==
    LET pos == MatchPositions(str, src, ignoreCase)
    IN IF pos = {} \/ ~HasGroup(src)
       THEN <<>>
       ELSE LET i == Min(pos) + Len(RegExpLiteral(src))
            IN TakeWord(SubSeq(str, i, Len(str)))

----------------------------------------------------------------------------
(* Numbers.  A JavaScript number | null is a record: kind "num" with its   *)
(* value, "nan", or "null".                                                *)

Num(v) == [kind |-> "num", v |-> v]
NaN == [kind |-> "nan", v |-> 0]
Null == [kind |-> "null", v |-> 0]

Digits == {"0", "1", "2", "3", "4", "5", "6", "7", "8", "9"}

DigitVal(c) ==
    CASE c = "0" -> 0 [] c = "1" -> 1 [] c = "2" -> 2 [] c = "3" -> 3 [] c = "4" -> 4
      [] c = "5" -> 5 [] c = "6" -> 6 [] c = "7" -> 7 [] c = "8" -> 8 [] c = "9" -> 9

RECURSIVE DigitsValue(_, _)
DigitsValue(s, acc) ==
    IF s = <<>> \/ Head(s) \notin Digits
    THEN acc
    ELSE DigitsValue(Tail(s), 10 * acc + DigitVal(Head(s)))

\* parseFloat: optional sign, then the longest run of digits; NaN without a digit
parseFloat(s) ==
    LET t == trimStart(s)
        neg == t # <<>> /\ Head(t) = "-"
        u == IF t # <<>> /\ Head(t) \in {"-", "+"} THEN Tail(t) ELSE t
    IN IF u = <<>> \/ Head(u) \notin Digits
       THEN NaN
       ELSE Num(IF neg THEN 0 - DigitsValue(u, 0) ELSE DigitsValue(u, 0))

\* Math.abs
MathAbs(n) == IF n.kind = "num" /\ n.v < 0 THEN Num(0 - n.v) ELSE n

\* s.replace(/,/g, '')
RemoveCommas(s) == SelectSeq(s, LAMBDA c : c # ",")

isNaN(n) == n.kind = "nan"

\* JavaScript truthiness of a number | null: null, NaN and 0 are falsy
Truthy(n) == n.kind = "num" /\ n.v # 0

----------------------------------------------------------------------------
(* Rule Matcher and Extraction Engine (lib/sms/parser) *)

UnknownMerchant == <<"?">>

\* senderPatterns.some(pattern => ...): literal first, then the pattern as a
\* case-insensitive regular expression; a pattern that does not compile is
\* caught and counts as not matching
SenderPatternMatches(snd, pattern) ==
    /\ ~IsBlank(pattern)
    /\ \/ includes(toLowerCase(snd), toLowerCase(pattern))
       \/ RegExpCompiles(pattern) /\ RegExpTest(snd, pattern, TRUE)

senderMatches(snd, rule) ==
    \E k \in DOMAIN rule.senderMatch : SenderPatternMatches(snd, rule.senderMatch[k])

\* pattern.startsWith('/') && pattern.lastIndexOf('/') > 1
LooksLikeRegex(pattern) ==
    pattern # <<>> /\ Head(pattern) = "/" /\ lastIndexOf(pattern, "/") - 1 > 1

SlashSource(pattern) == SubSeq(pattern, 2, lastIndexOf(pattern, "/") - 1)
SlashFlags(pattern) == SubSeq(pattern, lastIndexOf(pattern, "/") + 1, Len(pattern))

FlagsCompile(flags) ==
    /\ Range(flags) \subseteq {"g", "i", "m", "s", "u", "y"}
    /\ \A c \in Range(flags) : Count(flags, c) = 1

\* one skip pattern against the message body: blank patterns are passed over,
\* then a case-insensitive substring test, then the /source/flags form
\* (flags || 'i'); an expression that does not compile is caught
SkipPatternMatches(body, pattern) ==
    /\ ~IsBlank(pattern)
    /\ \/ includes(toLowerCase(body), toLowerCase(pattern))
       \/ /\ LooksLikeRegex(pattern)
          /\ RegExpCompiles(SlashSource(pattern))
          /\ FlagsCompile(SlashFlags(pattern))
          /\ RegExpTest(body, SlashSource(pattern),
                        SlashFlags(pattern) = <<>> \/ "i" \in Range(SlashFlags(pattern)))

\* variant of globalSkip without the global skip check
globalSkipNever(body, group) == FALSE

\* the global skip check: every rule of the group, enabled or not
globalSkip(body, group) ==
    \E i \in DOMAIN group : \E k \in DOMAIN group[i].skipCondition :
        SkipPatternMatches(body, group[i].skipCondition[k])

\* the rule-specific skip check
shouldSkipRule(body, rule) ==
    \E k \in DOMAIN rule.skipCondition : SkipPatternMatches(body, rule.skipCondition[k])

\* variant of ParsedAmount that keeps the sign of the captured number
ParsedAmountSigned(capture) == parseFloat(RemoveCommas(capture))

\* Always store positive amount regardless of sign in message
ParsedAmount(capture) == MathAbs(parseFloat(RemoveCommas(capture)))

\* text.match(new RegExp(pattern, 'i')): group 1, <<>> when the pattern does
\* not compile (caught), does not match or captures nothing
Capture(str, pattern) ==
    IF RegExpCompiles(pattern) THEN MatchGroup1(str, pattern, TRUE) ELSE <<>>

\* for (const pattern of amountPatterns): match && match[1] assigns amount;
\* a non-NaN amount breaks the loop
RECURSIVE extractAmount(_, _, _, _)
\* variant of amountParsed that breaks the loop on NaN too
amountParsedBreaks(body, patterns, k, parsed) == parsed

amountParsed(body, patterns, k, parsed) ==
    IF ~isNaN(parsed) THEN parsed ELSE extractAmount(body, patterns, k + 1, parsed)

amountStep(body, patterns, k, amount, capture) ==
    IF capture = <<>>
    THEN extractAmount(body, patterns, k + 1, amount)
    ELSE amountParsed(body, patterns, k, ParsedAmount(capture))

extractAmount(body, patterns, k, amount) ==
    IF k > Len(patterns)
    THEN amount
    ELSE amountStep(body, patterns, k, amount, Capture(body, patterns[k]))

\* first pattern of the list whose group 1 matches: match[1].trim(); the
\* name is kept when no pattern matches
RECURSIVE firstCapture(_, _, _, _)
captureStep(str, patterns, k, keep, capture) ==
    IF capture # <<>> THEN trim(capture) ELSE firstCapture(str, patterns, k + 1, keep)

firstCapture(str, patterns, k, keep) ==
    IF k > Len(patterns)
    THEN keep
    ELSE captureStep(str, patterns, k, keep, Capture(str, patterns[k]))

\* tryMerchantExtractions: the text after the first start marker that occurs
\* in the message, up to the next blank; <<>> when no attempt succeeds
RECURSIVE tryMerchantExtractions(_, _, _)
extractionStep(body, attempts, k, found) ==
    IF found # <<>> THEN trim(found) ELSE tryMerchantExtractions(body, attempts, k + 1)

tryMerchantExtractions(body, attempts, k) ==
    IF k > Len(attempts)
    THEN <<>>
    ELSE extractionStep(body, attempts, k,
             MatchGroup1(body, attempts[k].startText \o <<"(", "#", ")">>, FALSE))

\* tryMerchantExtractions(...) || "Unknown Merchant"
OrUnknown(name) == IF name = <<>> THEN UnknownMerchant ELSE name

\* the merchantCondition patterns, tried while the name is still unknown
byCondition(body, rule, name) ==
    IF name = <<>> \/ name = UnknownMerchant
    THEN firstCapture(body, rule.merchantCondition, 1, name)
    ELSE name

\* the merchantCommonPatterns, applied to the extracted name
cleaned(rule, name) ==
    IF name # <<>> THEN firstCapture(name, rule.merchantCommonPatterns, 1, name) ELSE name

extractMerchant(body, rule) ==
    cleaned(rule, byCondition(body, rule,
        IF Len(rule.merchantExtractions) > 0
        THEN OrUnknown(tryMerchantExtractions(body, rule.merchantExtractions, 1))
        ELSE UnknownMerchant))

NoMatch(writes) ==
    [amount |-> Null, merchantName |-> UnknownMerchant, usedRule |-> 0, writes |-> writes]

\* variant of isDisabled that evaluates disabled rules too
isDisabledNever(rule) == FALSE

\* if (!rule.enabled) continue
isDisabled(rule) == ~rule.enabled

\* one pass of the second loop of tryRules, up to if (!amount) continue: the
\* amount the rule extracts, Null when the rule is passed over before that
ruleAmount(body, snd, rule) ==
    IF isDisabled(rule) \/ ~senderMatches(snd, rule) \/ shouldSkipRule(body, rule)
    THEN Null
    ELSE extractAmount(body, rule.amountRegex, 1, Null)

\* the successful return of tryRules, with the write-back of successCount
matched(body, rule, amount, writes) ==
    [amount |-> amount,
     merchantName |-> extractMerchant(body, rule),
     usedRule |-> rule.id,
     writes |-> Append(writes,
                       [rule EXCEPT !.successCount = @ + 1, !.lastError = "undefined"])]

\* a stored merchantCommonPatterns that is neither a string nor an array
NotIterable == <<<<"[object Object]">>>>

\* for (const pattern of rule.merchantCommonPatterns) throws a TypeError:
\* the name is not empty and the value cannot be iterated
cleaningThrows(body, rule) ==
    /\ rule.merchantCommonPatterns = NotIterable
    /\ byCondition(body, rule,
           IF Len(rule.merchantExtractions) > 0
           THEN OrUnknown(tryMerchantExtractions(body, rule.merchantExtractions, 1))
           ELSE UnknownMerchant) # <<>>

RECURSIVE tryRulesFrom(_, _, _, _, _)
\* variant of caught that gives up on the group after the write-back
caughtReturns(body, snd, group, i, writes) ==
    NoMatch(Append(writes, [group[i] EXCEPT !.lastError = "TypeError"]))

\* catch (error) of the rule: the write-back of lastError: String(error),
\* then the next rule of the group
caught(body, snd, group, i, writes) ==
    tryRulesFrom(body, snd, group, i + 1,
                 Append(writes, [group[i] EXCEPT !.lastError = "TypeError"]))

ruleStep(body, snd, group, i, writes, amount) ==
    IF ~Truthy(amount)
    THEN tryRulesFrom(body, snd, group, i + 1, writes)
    ELSE IF cleaningThrows(body, group[i])
    THEN caught(body, snd, group, i, writes)
    ELSE matched(body, group[i], amount, writes)

tryRulesFrom(body, snd, group, i, writes) ==
    IF i > Len(group)
    THEN NoMatch(writes)
    ELSE ruleStep(body, snd, group, i, writes, ruleAmount(body, snd, group[i]))

tryRules(body, snd, group) ==
    IF globalSkip(body, group)
    THEN NoMatch(<<>>)
    ELSE tryRulesFrom(body, snd, group, 1, <<>>)

\* rules.filter(rule => rule.transactionType === type)
rulesOfType(rs, type) == SelectSeq(rs, LAMBDA r : r.transactionType = type)

\* variant of groupOrder that tries the income group first
groupOrderIncomeFirst == <<"income", "expense">>

\* the group tried first and the group tried second
groupOrder == <<"expense", "income">>

ParseResult(r, type, writes) ==
    [amount |-> r.amount, merchantName |-> r.merchantName, usedRule |-> r.usedRule,
     transactionType |-> type, writes |-> writes]

\* the second half of extractExpenseFromText, reached when the first group
\* returned no amount
secondGroup(first, second) ==
    IF Truthy(second.amount)
    THEN ParseResult(second, groupOrder[2], first.writes \o second.writes)
    ELSE ParseResult(NoMatch(<<>>), "undefined", first.writes \o second.writes)

\* variant of firstGroup that returns without trying the second group
firstGroupOnly(body, snd, rs, first) ==
    IF Truthy(first.amount)
    THEN ParseResult(first, groupOrder[1], first.writes)
    ELSE ParseResult(NoMatch(<<>>), "undefined", first.writes)

\* the first half of extractExpenseFromText: the result of the first group
\* when it has an amount, the second group otherwise
firstGroup(body, snd, rs, first) ==
    IF Truthy(first.amount)
    THEN ParseResult(first, groupOrder[1], first.writes)
    ELSE secondGroup(first, tryRules(body, snd, rulesOfType(rs, groupOrder[2])))

extractExpenseFromText(body, snd, rs) ==
    firstGroup(body, snd, rs, tryRules(body, snd, rulesOfType(rs, groupOrder[1])))

\* updateSmsParserRule: put by id; a write in ok succeeds, the others fail
\* (the failure is caught and logged by the caller)
RECURSIVE updateSmsParserRules(_, _, _, _)
updateSmsParserRules(store, writes, k, ok) ==
    IF k > Len(writes)
    THEN store
    ELSE updateSmsParserRules(
             IF k \in ok
             THEN [j \in DOMAIN store |->
                      IF store[j].id = writes[k].id THEN writes[k] ELSE store[j]]
             ELSE store,
             writes, k + 1, ok)

----------------------------------------------------------------------------
(* Inputs: rules and messages *)

SenderVB == <<"v", "b">>
AmountDb == <<"d", "b", " ", "(", "#", ")">>
AmountCr == <<"c", "r", " ", "(", "#", ")">>
MerchantAt == <<"a", "t", " ", "(", "#", ")">>
SkipOtp == <<"o", "t", "p">>
SkipOtpRegex == <<"/", "o", "t", "p", "/">>
SkipBlank == <<" ">>
\* sources that new RegExp rejects, like "([0-9]+"
AmountInvalid == <<"d", "b", " ", "(", "#">>
SenderInvalid == <<"(", "v", "b">>

Rule(type, enabled, priority, skip) ==
    [id |-> 0, enabled |-> enabled, paymentBank |-> "Bank", priority |-> priority,
     transactionType |-> type,
     senderMatch |-> <<SenderVB>>,
     amountRegex |-> IF type = "expense" THEN <<AmountDb>> ELSE <<AmountCr, AmountDb>>,
     merchantExtractions |-> <<>>,
     merchantCondition |-> <<MerchantAt>>,
     merchantCommonPatterns |-> <<>>,
     skipCondition |-> skip,
     successCount |-> 0, lastError |-> "undefined"]

RulePool ==
    {Rule("expense", TRUE, 10, <<>>),
     Rule("expense", TRUE, 5, <<>>),
     Rule("expense", TRUE, 5, <<SkipOtp>>),
     Rule("expense", FALSE, 5, <<SkipOtp>>),
     Rule("expense", TRUE, 10, <<SkipBlank>>),
     Rule("income", TRUE, 10, <<>>),
     Rule("income", TRUE, 5, <<SkipOtpRegex>>),
     [Rule("expense", TRUE, 10, <<>>) EXCEPT !.amountRegex = <<AmountInvalid>>],
     [Rule("expense", TRUE, 10, <<>>) EXCEPT !.senderMatch = <<SenderInvalid>>],
     [Rule("expense", TRUE, 10, <<>>) EXCEPT !.merchantCommonPatterns = NotIterable]}

\* the rules of a store: the record at position i has id i
WithIds(list) == [i \in DOMAIN list |-> [list[i] EXCEPT !.id = i]]

RuleLists(n) == {WithIds(l) : l \in UNION {[1..k -> RulePool] : k \in 0..n}}

BodyDebit == <<"D", "B", " ", "-", "1", ",", "5", " ", "a", "t", " ", "K">>
BodyZero == <<"d", "b", " ", "0">>
BodyWord == <<"d", "b", " ", "x">>
BodyOtp == <<"O", "T", "P", " ", "d", "b", " ", "5">>
BodyCredit == <<"c", "r", " ", "7">>
BodyWordThenDebit == <<"c", "r", " ", "x", " ", "d", "b", " ", "5">>

Sms(address, body, date) == [address |-> address, body |-> body, date |-> date]

MessagePool ==
    {Sms(<<"V", "B">>, BodyDebit, 1),
     Sms(<<"V", "B">>, BodyZero, 1),
     Sms(<<"V", "B">>, BodyWord, 1),
     Sms(<<"V", "B">>, BodyOtp, 1),
     Sms(<<"V", "B">>, BodyWordThenDebit, 1),
     Sms(<<"z", "z">>, BodyDebit, 1)}

NoResult ==
    [amount |-> Null, merchantName |-> <<>>, usedRule |-> 0,
     transactionType |-> "pending", writes |-> <<>>]

----------------------------------------------------------------------------
(* The extraction engine on one message *)

\* no storage operation has been called yet
NoCalls ==
    /\ lostWrites = 0
    /\ window = <<>>
    /\ addedEvents = 0
    /\ history = <<>>
    /\ calls = 0

\* no page has asked for a scan
UiIdle ==
    /\ page = "dashboard"
    /\ cur = 0
    /\ isScanning = FALSE
    /\ handlers = {}
    /\ clicks = 0

InitExtract ==
    /\ ruleStore \in RuleLists(MaxRules)
    /\ \E m \in MessagePool : text = m.body /\ sender = m.address
    /\ result = NoResult
    /\ txStore = {}
    /\ device = <<>>
    /\ pc = "engine"
    /\ messages = <<>>
    /\ rules = ruleStore
    /\ idx = 0
    /\ transactions = <<>>
    /\ processedCount = 0
    /\ skippedCount = 0
    /\ progress = <<>>
    /\ fates = <<>>
    /\ saved = 0
    /\ outcome = "none"
    /\ broadcasts = 0
    /\ bridgeCalls = 0
    /\ rulesRead = FALSE
    /\ issued = {}
    /\ runs = 0
    /\ UiIdle
    /\ range = <<>>
    /\ NoCalls

\* the write-backs of the matcher reach the Rule Store or fail one by one
WriteBack(writes) ==
    \E ok \in SUBSET (DOMAIN writes) :
        /\ ruleStore' = updateSmsParserRules(ruleStore, writes, 1, ok)
        /\ lostWrites' = lostWrites + Len(writes) - Cardinality(ok)

Returns(r) ==
    /\ result' = r
    /\ WriteBack(r.writes)

\* extractExpenseFromText(text, sender, rules) called on its own with a message and a rule list
ExtractExpenseFromText ==
    /\ pc = "engine"
    /\ UNCHANGED uiVars
    /\ result = NoResult
    /\ Returns(extractExpenseFromText(text, sender, rules))
    /\ UNCHANGED <<txStore, device, issued, text, sender>>
    /\ UNCHANGED scanVars
    /\ UNCHANGED <<range, window, addedEvents, history, calls>>

----------------------------------------------------------------------------
(* Identity, duplicate check and the stores (lib/sms/processor, lib/db) *)

\* uuidv4(): any identifier of the pool
Uuids == 1..MaxUuid

IdFields(smsData) ==
    [date |-> smsData.date, amount |-> smsData.amount,
     merchantName |-> smsData.merchantName, sender |-> smsData.sender,
     body |-> smsData.body]

\* the identifiers generateDeterministicTransactionId may return for the
\* fields: it builds idString and then returns uuidv4()
generateDeterministicTransactionId(fields) == Uuids

\* createTransactionFromSms: the record built around the generated id
createTransactionFromSms(smsData, id, bankName, type) ==
    [id |-> id, amount |-> smsData.amount, date |-> smsData.date,
     merchantName |-> smsData.merchantName, paymentMethod |-> bankName,
     source |-> "sms", type |-> type]

\* getTransactions: the records of the store, or [] when the read fails
getTransactions(store, readOk) == IF readOk THEN store ELSE {}

\* isTransactionDuplicate with smsData.id given
isTransactionDuplicate(id, store, readOk) ==
    \E t \in getTransactions(store, readOk) : t.id = id

\* variant of addRejected that accepts every key
addRejectedNever(store, t) == FALSE

\* db.add('transactions', t) rejects a key that is already stored
addRejected(store, t) == \E s \in store : s.id = t.id

ManualTransaction ==
    [id |-> 1, amount |-> 3, date |-> 1, merchantName |-> <<"M">>,
     paymentMethod |-> "Cash", source |-> "manual", type |-> "expense"]

----------------------------------------------------------------------------
(* Scan orchestrator (scanSms) and SmsService.scanAndSaveTransactions *)

\* loadSmsFromDevice(limit = 100)
MessageLimit == 100

ScanRuleSets ==
    {WithIds(l) : l \in
        {<<>>,
         <<Rule("expense", FALSE, 10, <<>>)>>,
         <<Rule("expense", TRUE, 10, <<>>)>>,
         <<Rule("expense", TRUE, 5, <<>>), Rule("income", TRUE, 10, <<>>)>>,
         <<Rule("expense", FALSE, 5, <<>>), Rule("income", FALSE, 5, <<>>)>>}}

ScanMessagePool ==
    {Sms(<<"V", "B">>, BodyDebit, 1),
     Sms(<<"V", "B">>, BodyCredit, 2),
     Sms(<<"V", "B">>, BodyWord, 1)}

\* new Date() of loadSmsFromDevice, in days
Today == 3

\* fromDate.setDate(fromDate.getDate() - 30)
WindowDays == 30

\* the date ranges a scan is asked for; the narrower one is asked for over
\* an empty store and two enabled rules
Ranges == {<<1, Today>>, <<2, Today>>}

\* window.Android.readSMS(from, to): the messages of the device dated in the window
readSMS(dev, from, to) ==
    SelectSeq(dev, LAMBDA m : from <= m.date /\ m.date <= to)

DeviceLists == UNION {[1..k -> ScanMessagePool] : k \in 0..MaxMsgs}

InitScan ==
    /\ ruleStore \in ScanRuleSets
    /\ txStore \in {{}, {ManualTransaction}}
    /\ device \in DeviceLists
    /\ pc = "idle"
    /\ messages = <<>>
    /\ rules = <<>>
    /\ idx = 0
    /\ transactions = <<>>
    /\ processedCount = 0
    /\ skippedCount = 0
    /\ progress = <<>>
    /\ fates = <<>>
    /\ saved = 0
    /\ outcome = "none"
    /\ broadcasts = 0
    /\ bridgeCalls = 0
    /\ rulesRead = FALSE
    /\ issued = {}
    /\ runs = 0
    /\ UiIdle
    /\ range \in Ranges
    /\ range # <<1, Today>> => (txStore = {} /\ Len(ruleStore) = 2 /\ ruleStore[1].enabled)
    /\ NoCalls
    /\ text = <<>>
    /\ sender = <<>>
    /\ result = NoResult

\* a call of SmsService.scanAndSaveTransactions begins: it calls scanSms
BeginScan(requested) ==
    /\ pc' = "loadSms"
    /\ range' = requested
    /\ lostWrites' = 0
    /\ window' = <<>>
    /\ UNCHANGED <<addedEvents, history, calls>>
    /\ UNCHANGED uiVars
    /\ messages' = <<>>
    /\ rules' = <<>>
    /\ idx' = 0
    /\ transactions' = <<>>
    /\ processedCount' = 0
    /\ skippedCount' = 0
    /\ progress' = <<>>
    /\ fates' = <<>>
    /\ saved' = 0
    /\ outcome' = "none"
    /\ bridgeCalls' = 0
    /\ rulesRead' = FALSE
    /\ UNCHANGED <<ruleStore, txStore, device, broadcasts, issued, runs, text, sender,
                   result>>

ScanAndSaveTransactions ==
    /\ pc = "idle"
    /\ BeginScan(range)

\* the same call once more, after the previous one has returned
ScanAgain ==
    /\ pc = "done"
    /\ runs < MaxRuns
    /\ \E requested \in Ranges : BeginScan(requested)

\* variant of ReturnEmpty that goes on to the rules instead of returning
ReturnEmptyContinues(why) ==
    /\ pc' = "loadRules"
    /\ UNCHANGED <<outcome, runs>>

\* scanSms returned [] before the loop: scanAndSaveTransactions saves and
\* broadcasts nothing and returns
ReturnEmpty(why) ==
    /\ pc' = "done"
    /\ outcome' = why
    /\ runs' = runs + 1

\* const messages = await loadSmsFromDevice(); if (... length === 0) return []
LoadSmsFromDevice ==
    /\ pc = "loadSms"
    /\ UNCHANGED uiVars
    /\ \E bridge \in {"unavailable", "fails", "ok"} :
          /\ bridgeCalls' = IF bridge = "unavailable" THEN bridgeCalls ELSE bridgeCalls + 1
          /\ window' = IF bridge = "unavailable" THEN window
                       ELSE <<Today - WindowDays, Today>>
          /\ messages' = IF bridge = "ok"
                         THEN LET read == readSMS(device, Today - WindowDays, Today)
                              IN SubSeq(read, 1, IF Len(read) < MessageLimit
                                                 THEN Len(read) ELSE MessageLimit)
                         ELSE <<>>
    /\ IF messages' = <<>>
       THEN ReturnEmpty("No SMS messages found")
       ELSE pc' = "loadRules" /\ UNCHANGED <<outcome, runs>>
    /\ UNCHANGED <<ruleStore, txStore, device, rules, idx, transactions, processedCount,
                   skippedCount, progress, fates, saved, broadcasts, rulesRead, issued, text,
                   sender, result, lostWrites, range, addedEvents, history, calls>>

\* const rules = await getSmsParserRules(); if (... length === 0) return [];
\* a failed read is caught by the outer catch of scanSms
GetSmsParserRules ==
    /\ pc = "loadRules"
    /\ UNCHANGED uiVars
    /\ \E readOk \in BOOLEAN :
          IF ~readOk
          THEN /\ ReturnEmpty("Error scanning SMS")
               /\ UNCHANGED <<rules, rulesRead>>
          ELSE /\ rules' = ruleStore
               /\ rulesRead' = TRUE
               /\ IF Len(ruleStore) = 0
                  THEN ReturnEmpty("No SMS parser rules found")
                  ELSE pc' = "extract" /\ UNCHANGED <<outcome, runs>>
    /\ UNCHANGED <<ruleStore, txStore, device, messages, idx, transactions,
                   processedCount, skippedCount, progress, fates, saved, broadcasts, bridgeCalls,
                   issued, text, sender, result, lostWrites, range, window, addedEvents, history, calls>>

\* variant of Skip that forgets to count the message
SkipUncounted(why) ==
    /\ fates' = Append(fates, why)
    /\ UNCHANGED <<skippedCount, transactions, processedCount, progress>>

\* skippedCount++; continue (no progress event is emitted on this path)
Skip(why) ==
    /\ skippedCount' = skippedCount + 1
    /\ fates' = Append(fates, why)
    /\ UNCHANGED <<transactions, processedCount, progress>>

\* variant of catchMessage without skippedCount++
catchMessageUncounted ==
    /\ fates' = Append(fates, "exception")
    /\ UNCHANGED <<skippedCount, transactions, processedCount, progress>>

\* catch (error) { console.error(...); skippedCount++; } of the loop body
catchMessage == Skip("exception")

\* variant of push that puts the transaction in front of the list
pushFront(list, t) == <<t>> \o list

\* transactions.push(transaction)
push(list, t) == Append(list, t)

\* the pass after a successful extraction: createTransactionFromSms, the
\* duplicate check, transactions.push and the progress event; an exception
\* of createTransactionFromSms is caught by the catch of the loop body
Accept(smsData, bank, type) ==
    \E id \in generateDeterministicTransactionId(IdFields(smsData)) :
    \E enrichOk \in BOOLEAN, readOk \in BOOLEAN :
        /\ issued' = issued \cup {[fields |-> IdFields(smsData), id |-> id]}
        /\ IF ~enrichOk
           THEN catchMessage
           ELSE IF isTransactionDuplicate(id, txStore, readOk)
           THEN Skip("duplicate")
           ELSE /\ transactions' =
                      push(transactions, createTransactionFromSms(smsData, id, bank, type))
                /\ processedCount' = processedCount + 1
                /\ progress' = Append(progress,
                       [total |-> Len(messages),
                        processed |-> processedCount + 1 + skippedCount,
                        success |-> processedCount + 1,
                        skipped |-> skippedCount])
                /\ fates' = Append(fates, "accepted")
                /\ UNCHANGED skippedCount

Process(message, r) ==
    /\ text' = message.body
    /\ sender' = message.address
    /\ Returns(r)
    /\ IF ~Truthy(r.amount) \/ r.transactionType = "undefined"
       THEN Skip("unmatched") /\ UNCHANGED issued
       ELSE Accept([body |-> message.body, date |-> message.date, amount |-> r.amount.v,
                    merchantName |-> r.merchantName, sender |-> message.address],
                   IF r.usedRule = 0 THEN "Other Bank" ELSE rules[r.usedRule].paymentBank,
                   r.transactionType)

\* extractExpenseFromText rejects (an exception that escapes tryRules, such
\* as a sender pattern that is not a string): the catch of the loop body
ExtractionThrows ==
    /\ catchMessage
    /\ UNCHANGED <<ruleStore, issued, text, sender, result, lostWrites>>

\* one pass of for (const message of messages)
ProcessMessage ==
    /\ pc = "extract"
    /\ UNCHANGED uiVars
    /\ idx < Len(messages)
    /\ \/ ExtractionThrows
       \/ Process(messages[idx + 1],
                  extractExpenseFromText(messages[idx + 1].body, messages[idx + 1].address,
                                         rules))
    /\ idx' = idx + 1
    /\ UNCHANGED <<txStore, device, pc, messages, rules, saved, outcome, broadcasts,
                   bridgeCalls, rulesRead, runs, range, window, addedEvents, history, calls>>

\* after the loop: the toast, return transactions
ReturnTransactions ==
    /\ pc = "extract"
    /\ UNCHANGED uiVars
    /\ idx = Len(messages)
    /\ outcome' = IF Len(transactions) > 0 THEN "SMS Scan Complete"
                  ELSE "No new transactions found"
    /\ pc' = "persist"
    /\ UNCHANGED <<ruleStore, txStore, device, messages, rules, idx, transactions,
                   processedCount, skippedCount, progress, fates, saved, broadcasts, bridgeCalls,
                   rulesRead, issued, runs, text, sender, result, lostWrites, range, window, addedEvents, history, calls>>

\* variant of rethrow that undoes the writes of the running call
rethrowRollingBack ==
    /\ pc' = "done"
    /\ outcome' = "thrown"
    /\ runs' = runs + 1
    /\ txStore' = txStore \ {transactions[k] : k \in 1..saved}
    /\ UNCHANGED <<saved, addedEvents>>

\* catch (error) { console.error(...); throw error; } of addTransaction and
\* of scanAndSaveTransactions: the call ends, the store stays as it is
rethrow ==
    /\ pc' = "done"
    /\ outcome' = "thrown"
    /\ runs' = runs + 1
    /\ UNCHANGED <<txStore, saved, addedEvents>>

\* await addTransaction(transaction): a rejected or failed write is rethrown
\* and ends scanAndSaveTransactions
AddTransaction ==
    /\ pc = "persist"
    /\ UNCHANGED uiVars
    /\ saved < Len(transactions)
    /\ LET t == transactions[saved + 1]
       IN \E writeOk \in BOOLEAN :
             IF writeOk /\ ~addRejected(txStore, t)
             THEN /\ txStore' = txStore \cup {t}
                  /\ addedEvents' = addedEvents + 1
                  /\ saved' = saved + 1
                  /\ UNCHANGED <<pc, outcome, runs>>
             ELSE rethrow
    /\ UNCHANGED <<ruleStore, device, messages, rules, idx, transactions, processedCount,
                   skippedCount, progress, fates, broadcasts, bridgeCalls, rulesRead, issued,
                   text, sender, result, lostWrites, range, window, history, calls>>

\* if (transactions.length > 0) dbEvents.broadcast([...]); return transactions
BroadcastAndReturn ==
    /\ pc = "persist"
    /\ UNCHANGED uiVars
    /\ saved = Len(transactions)
    /\ broadcasts' = IF Len(transactions) > 0 THEN broadcasts + 1 ELSE broadcasts
    /\ pc' = "done"
    /\ runs' = runs + 1
    /\ UNCHANGED <<ruleStore, txStore, device, messages, rules, idx, transactions,
                   processedCount, skippedCount, progress, fates, saved, outcome, bridgeCalls,
                   rulesRead, issued, text, sender, result, lostWrites, range, window, addedEvents, history, calls>>

----------------------------------------------------------------------------
(* The scan buttons: handleSmsScanClick of the dashboard (pages/Index) and *)
(* handleScanSms of the scanner view (components/SmsScanView).  Each       *)
(* component keeps its own isScanning state, which starts as false in      *)
(* every instance that is mounted; a handler that is awaiting goes on      *)
(* after its component was unmounted.                                      *)

InitUi ==
    /\ pc = "ui"
    /\ page \in {"dashboard", "scanner"}
    /\ cur = 0
    /\ isScanning = FALSE
    /\ handlers = {}
    /\ clicks = 0
    /\ ruleStore = <<>>
    /\ txStore = {}
    /\ device = <<>>
    /\ messages = <<>>
    /\ rules = <<>>
    /\ idx = 0
    /\ transactions = <<>>
    /\ processedCount = 0
    /\ skippedCount = 0
    /\ progress = <<>>
    /\ fates = <<>>
    /\ saved = 0
    /\ outcome = "none"
    /\ broadcasts = 0
    /\ bridgeCalls = 0
    /\ rulesRead = FALSE
    /\ issued = {}
    /\ runs = 0
    /\ range = <<>>
    /\ NoCalls
    /\ text = <<>>
    /\ sender = <<>>
    /\ result = NoResult

Handler(comp, at) == [comp |-> comp, inst |-> cur, at |-> at]

\* history.slice(0, 50)
HistoryLimit == 50

\* variant of unshift that puts the entry at the end of the list
unshiftAtEnd(list, entry) == Append(list, entry)

\* history.unshift(newEntry)
unshift(list, entry) == <<entry>> \o list

\* list.slice(0, n)
slice(list, n) == SubSeq(list, 1, IF Len(list) < n THEN Len(list) ELSE n)

\* the entry of call number n: id: Date.now().toString()
ScanHistoryEntry(n, source) == [id |-> n, source |-> source]

\* addScanHistoryEntry: load, unshift, slice(0, 50), save; a save that
\* fails is caught and logged by saveScanHistory, the stored list stays
addScanHistoryEntry(source) ==
    /\ calls' = calls + 1
    /\ \E saveOk \in BOOLEAN :
          IF saveOk
          THEN /\ history' = slice(unshift(history, ScanHistoryEntry(calls + 1, source)),
                                  HistoryLimit)
               /\ UNCHANGED lostWrites
          ELSE /\ lostWrites < MaxLostSaves
               /\ lostWrites' = lostWrites + 1
               /\ UNCHANGED history

\* the variables a scan handler leaves alone
handlerVars == <<ruleStore, txStore, device, pc, messages, rules, idx, transactions,
                 processedCount, skippedCount, progress, fates, saved, outcome, broadcasts,
                 bridgeCalls, rulesRead, issued, runs, text, sender, result,
                 range, window, addedEvents>>

\* a state update of a handler reaches the instance it was started in; React
\* ignores it once that instance is unmounted
setIsScanning(h, v) == IF h.inst = cur THEN v ELSE isScanning

Moves(h, at) == handlers' = (handlers \ {h}) \cup {[h EXCEPT !.at = at]}

\* onClick of the dashboard button: if (isScanning) return; setIsScanning(true)
HandleSmsScanClick ==
    /\ pc = "ui"
    /\ page = "dashboard"
    /\ clicks < MaxClicks
    /\ clicks' = clicks + 1
    /\ IF isScanning
       THEN UNCHANGED <<isScanning, handlers>>
       ELSE /\ isScanning' = TRUE
            /\ handlers' = handlers \cup {Handler("dashboard", "rules")}
    /\ UNCHANGED <<page, cur>>
    /\ UNCHANGED coreVars

\* the dashboard handler after await getSmsParserRules(): no enabled rule
\* (toast, history entry, return) or a failed read (catch, history entry)
\* lead to finally, else the scan
EnabledRulesChecked ==
    /\ pc = "ui"
    /\ \E h \in handlers : \E read \in {"enabled", "none", "fails"} :
          /\ h.at = "rules"
          /\ Moves(h, IF read = "enabled" THEN "scan" ELSE "finally")
          /\ IF read = "enabled"
             THEN UNCHANGED <<history, calls, lostWrites>>
             ELSE addScanHistoryEntry("dashboard")
    /\ UNCHANGED <<page, cur, isScanning, clicks>>
    /\ UNCHANGED handlerVars

\* onClick of the scanner view's button, which is disabled while isScanning
\* or without an enabled rule: setIsScanning(true), then the 500 ms delay
HandleScanSms ==
    /\ pc = "ui"
    /\ page = "scanner"
    /\ ~isScanning
    /\ clicks < MaxClicks
    /\ clicks' = clicks + 1
    /\ isScanning' = TRUE
    /\ handlers' = handlers \cup {Handler("scanner", "delay")}
    /\ UNCHANGED <<page, cur>>
    /\ UNCHANGED coreVars

\* await new Promise(res => setTimeout(res, 500))
DelayElapsed ==
    /\ pc = "ui"
    /\ \E h \in handlers : h.at = "delay" /\ Moves(h, "scan")
    /\ UNCHANGED <<page, cur, isScanning, clicks>>
    /\ UNCHANGED coreVars

\* await SmsService.scanSms(...) settles: the rest of the try block, or
\* catch; both add an entry to the scan history
ScanSmsSettles ==
    /\ pc = "ui"
    /\ \E h \in handlers :
          /\ h.at = "scan"
          /\ Moves(h, "finally")
          /\ addScanHistoryEntry(h.comp)
    /\ UNCHANGED <<page, cur, isScanning, clicks>>
    /\ UNCHANGED handlerVars

\* variant of finallyFlag that leaves the flag set
finallyFlagKept(h) == isScanning

\* finally { setIsScanning(false); }
finallyFlag(h) == setIsScanning(h, FALSE)

Finally ==
    /\ pc = "ui"
    /\ \E h \in handlers :
          /\ h.at = "finally"
          /\ isScanning' = finallyFlag(h)
          /\ handlers' = handlers \ {h}
    /\ UNCHANGED <<page, cur, clicks>>
    /\ UNCHANGED coreVars

\* the user goes to the other page: the component of the page left is
\* unmounted, the other is mounted with useState(false)
Navigate ==
    /\ pc = "ui"
    /\ cur < MaxMounts
    /\ page' = IF page = "dashboard" THEN "scanner" ELSE "dashboard"
    /\ cur' = cur + 1
    /\ isScanning' = FALSE
    /\ UNCHANGED <<handlers, clicks>>
    /\ UNCHANGED coreVars

----------------------------------------------------------------------------
(* The transaction operations of lib/db called on their own, and the scan  *)
(* history of localStorage (addScanHistoryEntry).                          *)

\* no scan and no extraction is running
ScanIdle ==
    /\ ruleStore = <<>>
    /\ device = <<>>
    /\ messages = <<>>
    /\ rules = <<>>
    /\ idx = 0
    /\ transactions = <<>>
    /\ processedCount = 0
    /\ skippedCount = 0
    /\ progress = <<>>
    /\ fates = <<>>
    /\ saved = 0
    /\ outcome = "none"
    /\ broadcasts = 0
    /\ bridgeCalls = 0
    /\ rulesRead = FALSE
    /\ issued = {}
    /\ runs = 0
    /\ range = <<>>
    /\ text = <<>>
    /\ sender = <<>>
    /\ result = NoResult

\* the variables the storage operations leave alone
idleVars == <<ruleStore, device, pc, messages, rules, idx, transactions, processedCount,
              skippedCount, progress, fates, saved, broadcasts, bridgeCalls, rulesRead,
              issued, runs, range, window, text, sender, result>>

\* the transactions given to addTransaction and updateTransaction
TransactionPool ==
    {[ManualTransaction EXCEPT !.id = i, !.amount = a] : i \in Uuids, a \in {3, 4}}

InitDb ==
    /\ pc = "db"
    /\ txStore \in {{}, {ManualTransaction}}
    /\ ScanIdle
    /\ UiIdle
    /\ NoCalls

\* the catch of an operation of lib/db: console.error, throw error
dbRethrow(error) ==
    /\ outcome' = error
    /\ UNCHANGED <<txStore, addedEvents>>

\* addTransaction(t): db.add, then the broadcast of TRANSACTION_ADDED
AddTransactionCall(t) ==
    /\ pc = "db"
    /\ calls < MaxDbCalls
    /\ calls' = calls + 1
    /\ \E writeOk \in BOOLEAN :
          IF addRejected(txStore, t)
          THEN dbRethrow("ConstraintError")
          ELSE IF ~writeOk
          THEN dbRethrow("thrown")
          ELSE /\ txStore' = txStore \cup {t}
               /\ addedEvents' = addedEvents + 1
               /\ outcome' = "added"
    /\ UNCHANGED <<lostWrites, history>>
    /\ UNCHANGED idleVars
    /\ UNCHANGED uiVars

\* updateTransaction(t): db.put replaces the record under the key, or adds it
UpdateTransactionCall(t) ==
    /\ pc = "db"
    /\ calls < MaxDbCalls
    /\ calls' = calls + 1
    /\ \E writeOk \in BOOLEAN :
          IF writeOk
          THEN /\ txStore' = {s \in txStore : s.id # t.id} \cup {t}
               /\ outcome' = "updated"
               /\ UNCHANGED addedEvents
          ELSE dbRethrow("thrown")
    /\ UNCHANGED <<lostWrites, history>>
    /\ UNCHANGED idleVars
    /\ UNCHANGED uiVars

\* deleteTransaction(id): db.delete removes the record under the key, if any
DeleteTransactionCall(id) ==
    /\ pc = "db"
    /\ calls < MaxDbCalls
    /\ calls' = calls + 1
    /\ \E writeOk \in BOOLEAN :
          IF writeOk
          THEN /\ txStore' = {s \in txStore : s.id # id}
               /\ outcome' = "deleted"
               /\ UNCHANGED addedEvents
          ELSE dbRethrow("thrown")
    /\ UNCHANGED <<lostWrites, history>>
    /\ UNCHANGED idleVars
    /\ UNCHANGED uiVars

AddTransactionAlone == \E t \in TransactionPool : AddTransactionCall(t)

UpdateTransaction == \E t \in TransactionPool : UpdateTransactionCall(t)

DeleteTransaction == \E id \in Uuids : DeleteTransactionCall(id)

InitHistory ==
    /\ pc = "history"
    /\ txStore = {}
    /\ ScanIdle
    /\ UiIdle
    /\ NoCalls

AddScanHistoryEntry ==
    /\ pc = "history"
    /\ calls < MaxHistoryCalls
    /\ \E source \in {"dashboard"} : addScanHistoryEntry(source)
    /\ UNCHANGED <<txStore, outcome, addedEvents>>
    /\ UNCHANGED idleVars
    /\ UNCHANGED uiVars

NextStorage ==
    \/ AddTransactionAlone
    \/ UpdateTransaction
    \/ DeleteTransaction
    \/ AddScanHistoryEntry

----------------------------------------------------------------------------

Init == InitScan \/ InitExtract \/ InitUi \/ InitDb \/ InitHistory

NextScan ==
    \/ ScanAndSaveTransactions
    \/ LoadSmsFromDevice
    \/ GetSmsParserRules
    \/ ProcessMessage
    \/ ReturnTransactions
    \/ AddTransaction
    \/ BroadcastAndReturn

NextUi ==
    \/ HandleSmsScanClick
    \/ EnabledRulesChecked
    \/ HandleScanSms
    \/ DelayElapsed
    \/ ScanSmsSettles
    \/ Finally
    \/ Navigate

Next ==
    \/ ExtractExpenseFromText
    \/ NextScan
    \/ NextUi
    \/ NextStorage

Spec == Init /\ [][Next]_vars

NextRescan == Next \/ ScanAgain

SpecRescan == Init /\ [][NextRescan]_vars

\* every awaited call returns or fails: the steps of a scan that has
\* started, and of a handler that has started, are eventually taken
Fairness ==
    /\ WF_vars(LoadSmsFromDevice)
    /\ WF_vars(GetSmsParserRules)
    /\ WF_vars(ProcessMessage)
    /\ WF_vars(ReturnTransactions)
    /\ WF_vars(AddTransaction)
    /\ WF_vars(BroadcastAndReturn)
    /\ WF_vars(EnabledRulesChecked)
    /\ WF_vars(DelayElapsed)
    /\ WF_vars(ScanSmsSettles)
    /\ WF_vars(Finally)

SpecFair == (InitScan \/ InitUi) /\ [][NextScan \/ NextUi]_vars /\ Fairness

----------------------------------------------------------------------------
(* Properties of the extraction engine.  They speak of the last call of    *)
(* extractExpenseFromText: its message (text, sender), the rules it was    *)
(* given (rules) and what it returned (result).                            *)

Returned == result.transactionType # "pending"

\* the engine has returned and the caller has not moved on yet
JustReturned == Returned /\ pc \in {"engine", "extract"}

\* the rule, given alone, returns an amount for the message
MatchesAlone(rule) == Truthy(tryRules(text, sender, <<rule>>).amount)

\* an enabled rule of the group that matches the message
Matchable(type) ==
    \E i \in DOMAIN rules :
        rules[i].transactionType = type /\ rules[i].enabled /\ MatchesAlone(rules[i])

\* C4: when two enabled rules of one transaction-type group both match the
\* message, the rule returned as usedRule is the one with the higher
\* priority, and with equal priorities the one that comes first in the
\* input: no enabled matching rule of the used rule's group has a higher
\* priority, or the same priority and an earlier position.
C4_PriorityOrdering ==
    (Returned /\ result.usedRule # 0) =>
        \A i \in DOMAIN rules :
            (/\ i # result.usedRule
             /\ rules[i].transactionType = rules[result.usedRule].transactionType
             /\ rules[i].enabled
             /\ MatchesAlone(rules[i]))
            => \/ rules[i].priority < rules[result.usedRule].priority
               \/ /\ rules[i].priority = rules[result.usedRule].priority
                  /\ result.usedRule < i

ExpenseReturned ==
    /\ result.transactionType = "expense"
    /\ result.usedRule # 0
    /\ rules[result.usedRule].transactionType = "expense"

\* C5 as stated: a message that an enabled expense rule matches and an
\* enabled income rule matches yields the expense rule's result.
C5_GroupPrecedence_Original ==
    (Returned /\ Matchable("expense") /\ Matchable("income")) => ExpenseReturned

\* C5 (amended): a message that an enabled expense rule matches and an
\* enabled income rule matches yields an expense rule's result with
\* transactionType "expense", whatever the priorities and positions of the
\* rules, provided no skip condition declared by a rule of the expense group
\* matches the message (the global skip check then empties the group).
C5_GroupPrecedence ==
    (/\ Returned
     /\ Matchable("expense")
     /\ Matchable("income")
     /\ ~globalSkip(text, rulesOfType(rules, "expense")))
    => ExpenseReturned

\* an income rule of higher priority stands before every expense rule, both
\* groups match, and the expense result was returned
C5_Witness ==
    /\ Returned
    /\ Matchable("expense")
    /\ Matchable("income")
    /\ Len(rules) >= 2
    /\ rules[1].transactionType = "income" /\ rules[1].enabled /\ MatchesAlone(rules[1])
    /\ \A i \in DOMAIN rules :
          rules[i].transactionType = "expense" => rules[i].priority < rules[1].priority
    /\ ExpenseReturned

\* C6: the usedRule of a successful extraction is an enabled rule.
C6_DisabledRuleExclusion ==
    (Returned /\ result.usedRule # 0) => rules[result.usedRule].enabled

\* a disabled rule whose sender and amount patterns succeed stands first,
\* and the engine returned a later rule
C6_Witness ==
    /\ Returned
    /\ Len(rules) >= 2
    /\ ~rules[1].enabled
    /\ MatchesAlone([rules[1] EXCEPT !.enabled = TRUE])
    /\ result.usedRule > 1

\* the body contains pattern k of rule i, compared case-insensitively
ContainsSkipPattern(i, k) ==
    includes(toLowerCase(text), toLowerCase(rules[i].skipCondition[k]))

NoResultFromGroupOf(i) ==
    \/ result.usedRule = 0
    \/ rules[result.usedRule].transactionType # rules[i].transactionType

\* C7 as stated: a body that contains a skip-condition string of rule R
\* yields no result from R or from any rule of R's group.
C7_SkipCondition_Original ==
    Returned =>
        \A i \in DOMAIN rules : \A k \in DOMAIN rules[i].skipCondition :
            ContainsSkipPattern(i, k) => NoResultFromGroupOf(i)

\* C7 (amended): a body that contains, case-insensitively, a skip-condition
\* string of rule R that is not blank (not empty after trimming) yields no
\* result with usedRule = R and no result from any rule of R's group.
C7_SkipCondition ==
    Returned =>
        \A i \in DOMAIN rules : \A k \in DOMAIN rules[i].skipCondition :
            (~IsBlank(rules[i].skipCondition[k]) /\ ContainsSkipPattern(i, k))
            => NoResultFromGroupOf(i)

\* the body contains the skip string of a disabled rule, another rule of
\* the same group matches sender and amount, and the result came from the
\* other group
C7_Witness ==
    /\ Returned
    /\ \E i, j \in DOMAIN rules :
          /\ i # j
          /\ ~rules[i].enabled
          /\ \E k \in DOMAIN rules[i].skipCondition :
                ~IsBlank(rules[i].skipCondition[k]) /\ ContainsSkipPattern(i, k)
          /\ rules[j].transactionType = rules[i].transactionType
          /\ rules[j].enabled
          /\ MatchesAlone(rules[j])
          /\ result.usedRule # 0
          /\ rules[result.usedRule].transactionType # rules[i].transactionType

\* the numbers the amount patterns of the rule capture from the body
CapturedNumbers(rule) ==
    {parseFloat(RemoveCommas(Capture(text, rule.amountRegex[k]))) :
        k \in {j \in DOMAIN rule.amountRegex : Capture(text, rule.amountRegex[j]) # <<>>}}

\* C8: every successful extraction, and so every transaction a scan
\* accepted, has an amount strictly greater than zero; the amount is the
\* absolute value of a number that an amount pattern of the used rule
\* captured, and that number is neither 0 nor NaN.
C8_AmountPositive ==
    /\ \A k \in DOMAIN transactions : transactions[k].amount > 0
    /\ Returned =>
        /\ result.usedRule # 0 <=> Truthy(result.amount)
        /\ result.usedRule # 0 =>
              /\ result.amount.kind = "num"
              /\ result.amount.v > 0
              /\ \E n \in CapturedNumbers(rules[result.usedRule]) :
                    /\ n.kind = "num"
                    /\ n.v # 0
                    /\ result.amount.v = (IF n.v < 0 THEN 0 - n.v ELSE n.v)

\* the pattern captured -1,5 and the amount returned is 15
C8_Witness ==
    /\ Returned
    /\ text = BodyDebit
    /\ result.usedRule # 0
    /\ Num(0 - 15) \in CapturedNumbers(rules[result.usedRule])
    /\ result.amount = Num(15)

----------------------------------------------------------------------------
(* Properties of the scan (scanSms, SmsService.scanAndSaveTransactions). *)

\* a rule of the stored rule set matches the message: the loop of scanSms
\* goes on to createTransactionFromSms for it
RuleMatches(message) ==
    Truthy(extractExpenseFromText(message.body, message.address, ruleStore).amount)

MatchedMessages == {device[i] : i \in {j \in DOMAIN device : RuleMatches(device[j])}}

DistinctMessages == \A i, j \in DOMAIN device : device[i] = device[j] => i = j

SmsTransactions == {t \in txStore : t.source = "sms"}

\* C1: scan-and-save run again over the same message list and rule set
\* persists nothing new: over a list of pairwise different messages the
\* store never holds more SMS transactions than there are messages that a
\* rule matches.
C1_Idempotence ==
    DistinctMessages => Cardinality(SmsTransactions) <= Cardinality(MatchedMessages)

\* the messages of the batch processed so far that a rule matches
MatchedSoFar ==
    {messages[i] : i \in {j \in 1..idx : RuleMatches(messages[j])}}

\* C2: of the messages of one batch that are identical in date, sender and
\* body (and so in amount and merchantName) and match a rule, only the first
\* is appended to the accepted list: the list is never longer than the
\* number of different matching messages processed, and the others are
\* counted as skipped.
C2_IntraBatchDuplicate ==
    /\ Len(transactions) <= Cardinality(MatchedSoFar)
    /\ skippedCount >= idx - Cardinality(MatchedSoFar)

\* C3: generateDeterministicTransactionId returns the same identifier on
\* every call with equal (date, amount, merchantName, sender, body).
C3_IdentityDeterminism ==
    \A a, b \in issued : a.fields = b.fields => a.id = b.id

\* C9: the device bridge is called only after the rules were loaded and an
\* enabled rule was found among them.
C9_NoMessagesReadWithoutEnabledRules ==
    bridgeCalls > 0 => (rulesRead /\ \E i \in DOMAIN rules : rules[i].enabled)

NoEnabledRules == \A i \in DOMAIN ruleStore : ~ruleStore[i].enabled

\* the outcomes that report that there is no rule to scan with
NoEnabledRulesOutcomes == {"No Enabled Rules", "No SMS parser rules found"}

\* C10: with no enabled rule in the Rule Store a scan ends in the failed
\* outcome that reports the condition, and persists no transaction.
C10_NoEnabledRulesFails ==
    (pc = "done" /\ NoEnabledRules) =>
        /\ outcome \in NoEnabledRulesOutcomes
        /\ saved = 0

----------------------------------------------------------------------------
(* Properties of the scan: failures and counters. *)

ScanOutcomes == {"SMS Scan Complete", "No new transactions found"}

\* C11: when the message source returns no message (the bridge is
\* unavailable, its call fails, or it returns an empty list) the scan ends
\* with the no-messages error and never goes on to the rules; the
\* extraction engine was not run, no rule bookkeeping was written and the
\* Transaction Store holds no SMS transaction.
C11_NoMessages ==
    /\ (pc \in {"loadRules", "extract", "persist", "done"} /\ messages = <<>>)
          => (pc = "done" /\ outcome = "No SMS messages found")
    /\ outcome = "No SMS messages found" =>
          /\ messages = <<>>
          /\ ~rulesRead
          /\ idx = 0
          /\ fates = <<>>
          /\ result = NoResult
          /\ ruleStore \in ScanRuleSets
          /\ transactions = <<>>
          /\ saved = 0
          /\ SmsTransactions = {}

\* the bridge has messages and a rule matches one of them, but the call of
\* the bridge failed
C11_Witness ==
    /\ outcome = "No SMS messages found"
    /\ bridgeCalls = 1
    /\ MatchedMessages # {}

\* C12: a message whose processing throws is counted as skipped and is not
\* in the accepted list, the loop goes on to every message after it, and
\* scanSms still ends with one of its two completion outcomes.
C12_PartialFailureTolerance ==
    /\ skippedCount >= Count(fates, "exception")
    /\ Len(transactions) <= idx - Count(fates, "exception")
    /\ Count(fates, "exception") > 0 =>
          /\ pc \in {"extract", "persist", "done"}
          /\ pc = "extract" => outcome = "none"
          /\ pc = "persist" => (idx = Len(messages) /\ outcome \in ScanOutcomes)
          /\ pc = "done" => (idx = Len(messages) /\ outcome \in ScanOutcomes \cup {"thrown"})

\* the first message threw, the second was accepted, the scan completed
C12_Witness ==
    /\ pc = "persist"
    /\ fates = <<"exception", "accepted">>
    /\ outcome = "SMS Scan Complete"

\* C13: a failed write of an accepted transaction is absorbed: no call of
\* scanAndSaveTransactions ends with the error of a write.
C13_PersistenceContinues ==
    pc = "done" => outcome # "thrown"

\* C14: persisting (a step of scan-and-save, not an updateTransaction or
\* deleteTransaction called on its own) never removes or changes a stored
\* transaction, and the transactions written so far by the call are in the
\* store, also after a later write of the same call failed.
C14_NoRollback ==
    [][pc # "db" =>
          /\ txStore \subseteq txStore'
          /\ \A k \in 1..saved' : transactions'[k] \in txStore']_vars

\* the second write of a call failed after the first succeeded, with a
\* transaction in the store from before the scan
C14_Witness ==
    /\ outcome = "thrown"
    /\ saved = 1
    /\ transactions[1] \in txStore
    /\ ManualTransaction \in txStore

\* the source has parentheses that do not balance
Uncompilable(src) == Count(src, "(") # Count(src, ")")

\* an enabled rule none of whose amount patterns can be compiled, or none
\* of whose sender patterns can be compiled or occurs in the sender as it is
InvalidRule(rule) ==
    /\ rule.enabled
    /\ \/ \A k \in DOMAIN rule.amountRegex : Uncompilable(rule.amountRegex[k])
       \/ \A k \in DOMAIN rule.senderMatch :
             /\ Uncompilable(rule.senderMatch[k])
             /\ ~includes(toLowerCase(sender), toLowerCase(rule.senderMatch[k]))

FirstMatching(type) ==
    Min({i \in DOMAIN rules :
            rules[i].transactionType = type /\ rules[i].enabled /\ MatchesAlone(rules[i])})

\* the group of the type is the one that decides the result
GroupDecides(type) ==
    /\ ~globalSkip(text, rulesOfType(rules, type))
    /\ type = "income" => ~Truthy(tryRules(text, sender, rulesOfType(rules, "expense")).amount)

\* C15: when an enabled rule whose amount patterns (or sender patterns)
\* cannot be compiled stands before a valid enabled rule of the same group
\* that matches the message, the engine returns a result, the invalid rule
\* is not the match, and the match is the first rule of the group that
\* matches the message (provided the group decides the result: no global
\* skip, and for an income rule no match in the expense group).
C15_InvalidRegexTolerated ==
    Returned =>
        \A i, j \in DOMAIN rules :
            (/\ i < j
             /\ rules[i].transactionType = rules[j].transactionType
             /\ InvalidRule(rules[i])
             /\ rules[j].enabled
             /\ ~InvalidRule(rules[j])
             /\ MatchesAlone(rules[j])
             /\ GroupDecides(rules[j].transactionType))
            => /\ result.usedRule # 0
               /\ result.usedRule # i
               /\ result.usedRule = FirstMatching(rules[j].transactionType)

\* the rule with the invalid amount pattern stands first, the valid rule
\* after it is the match
C15_Witness ==
    /\ Returned
    /\ Len(rules) >= 2
    /\ rules[1].enabled
    /\ senderMatches(sender, rules[1])
    /\ \A k \in DOMAIN rules[1].amountRegex : Uncompilable(rules[1].amountRegex[k])
    /\ result.usedRule = 2

\* C16: isTransactionDuplicate returns true whenever the store holds a
\* record with the candidate's identifier: no transaction is accepted whose
\* identifier a stored record has.
C16_NoFalseNegative ==
    (pc \in {"extract", "persist"} /\ saved = 0) =>
        \A k \in DOMAIN transactions : \A t \in txStore : t.id # transactions[k].id

\* C18: a progress event is emitted after each message of the batch, whether
\* accepted or skipped: the number of events is the number of messages
\* visited.
C18_ProgressPerMessage ==
    Len(progress) = Len(fates)

\* C20: in the extraction loop processed is the length of the accepted
\* list and processed + skipped is the number of messages visited; after
\* the loop processed + skipped is the total number of messages.
C20_CountAccounting ==
    /\ processedCount = Len(transactions)
    /\ processedCount = Count(fates, "accepted")
    /\ processedCount + skippedCount = idx
    /\ Len(fates) = idx
    /\ idx <= Len(messages)
    /\ (pc = "persist" \/ outcome \in ScanOutcomes \cup {"thrown"})
          => processedCount + skippedCount = Len(messages)

\* one message was accepted and one skipped, and the loop has ended
C20_Witness ==
    /\ pc = "persist"
    /\ processedCount = 1
    /\ skippedCount = 1
    /\ Len(messages) = 2

----------------------------------------------------------------------------
(* Properties of the scan requests. *)

ScansInProgress == {h \in handlers : h.at = "scan"}

\* C17: at most one scan is in progress at a time, whatever the order of
\* the clicks on the dashboard's and the scanner view's scan buttons.
C17_MutualExclusion ==
    Cardinality(ScansInProgress) <= 1

\* C19: a scan that has started reaches its end (scanAndSaveTransactions
\* returns or throws), the scanning flag that a handler has set is reset,
\* and the loop visits the messages one after the other, none twice.
C19_Termination ==
    /\ (pc = "loadSms") ~> (pc = "done")
    /\ isScanning ~> ~isScanning
    /\ [][idx' = idx \/ (idx' = idx + 1 /\ idx' <= Len(messages))]_vars

\* a scan over two messages has ended
C19_Witness ==
    /\ pc = "done"
    /\ Len(messages) = 2
    /\ idx = 2
    /\ outcome = "SMS Scan Complete"

----------------------------------------------------------------------------
\* the position in the message list of the k-th message that was accepted
AcceptedAt(k) ==
    CHOOSE i \in 1..Len(fates) :
        /\ fates[i] = "accepted"
        /\ Cardinality({j \in 1..i : fates[j] = "accepted"}) = k

\* the accepted list holds the accepted messages in the order of the
\* message list: entry k was built from the k-th accepted message
InMessageOrder ==
    /\ Len(transactions) = Count(fates, "accepted")
    /\ \A k \in DOMAIN transactions :
          LET message == messages[AcceptedAt(k)]
          IN /\ transactions[k].date = message.date
             /\ Num(transactions[k].amount) =
                   extractExpenseFromText(message.body, message.address, rules).amount

\* a step decides exactly the next message of the list and leaves what was
\* decided before as it is; a write stores exactly the next accepted transaction
OneAtATime ==
    /\ Len(fates) = idx
    /\ idx' # idx =>
          /\ idx' = idx + 1 \/ idx' = 0
          /\ idx' = idx + 1 =>
                /\ fates' = Append(fates, fates'[idx'])
                /\ SubSeq(transactions', 1, Len(transactions)) = transactions
                /\ pc = "extract"
    /\ (saved' # saved /\ saved' # 0) =>
          /\ saved' = saved + 1
          /\ idx = Len(messages)
          /\ txStore' = txStore \cup {transactions[saved']}

\* C21: the messages are decided one at a time in list order, each after
\* the one before it was fully decided; the accepted list is a subsequence
\* of the message list in the same order, and the transactions are written
\* to the store one by one in that order.
C21_InOrderProcessing == []InMessageOrder /\ [][OneAtATime]_vars

\* two messages of different content were accepted and both written
C21_Witness ==
    /\ fates = <<"accepted", "accepted">>
    /\ messages[1].date # messages[2].date
    /\ saved = 2
    /\ transactions[1].date = messages[1].date

----------------------------------------------------------------------------
\* the messages of the scan that the rule matched
MatchedBy(id) ==
    {i \in 1..idx :
        extractExpenseFromText(messages[i].body, messages[i].address, rules).usedRule = id}

\* the loop has ended, extraction never threw and no write-back was lost
AllWriteBacksLanded ==
    /\ pc \in {"persist", "done"}
    /\ rulesRead
    /\ idx = Len(messages)
    /\ Count(fates, "exception") = 0
    /\ lostWrites = 0

\* C22: after a scan in which a rule matched k messages and every
\* rule-store write succeeded, the stored successCount of the rule is its
\* value before the scan plus k, and its lastError is cleared.
C22_SuccessCount ==
    AllWriteBacksLanded =>
        \A r \in DOMAIN rules :
            MatchedBy(rules[r].id) # {} =>
                /\ ruleStore[r].successCount =
                      rules[r].successCount + Cardinality(MatchedBy(rules[r].id))
                /\ ruleStore[r].lastError = "undefined"

----------------------------------------------------------------------------
\* the rule list with its disabled rules removed
EnabledOnly(rs) == SelectSeq(rs, LAMBDA r : r.enabled)

\* C23: no pattern of a disabled rule is applied to the message: what
\* extractExpenseFromText returned (amount, merchant, rule and type) is what
\* it returns for the same message once all disabled rules are removed from
\* the list.
C23_DisabledRulesInert ==
    Returned =>
        LET without == extractExpenseFromText(text, sender, EnabledOnly(rules))
        IN /\ result.amount = without.amount
           /\ result.merchantName = without.merchantName
           /\ result.usedRule = without.usedRule
           /\ result.transactionType = without.transactionType

----------------------------------------------------------------------------
\* the result is what the group of the type returns when it is tried alone:
\* its rule and amount under that type, or no match
DecidedBy(type) ==
    LET alone == tryRules(text, sender, rulesOfType(rules, type))
    IN IF Truthy(alone.amount)
       THEN /\ result.transactionType = type
            /\ result.usedRule = alone.usedRule
            /\ result.amount = alone.amount
       ELSE /\ result.transactionType = "undefined"
            /\ result.usedRule = 0

\* C24: a global skip ends the message only for the group whose rule
\* declared the pattern.  When a skip condition of the expense group matches,
\* the expense group returns no match and the income group is still
\* evaluated and decides the result; when only a skip condition of the
\* income group matches, the expense group decides as if there were none.
C24_SkipPerGroup ==
    JustReturned =>
        /\ globalSkip(text, rulesOfType(rules, "expense")) => DecidedBy("income")
        /\ (/\ globalSkip(text, rulesOfType(rules, "income"))
            /\ ~globalSkip(text, rulesOfType(rules, "expense")))
           => DecidedBy("expense")

\* a skip condition of the expense group matched a message that an expense
\* rule and an income rule both match, and an income result was returned
C24_Witness ==
    /\ Returned
    /\ globalSkip(text, rulesOfType(rules, "expense"))
    /\ \E i \in DOMAIN rules :
          /\ rules[i].transactionType = "expense"
          /\ Truthy(ruleAmount(text, sender, rules[i]))
    /\ result.transactionType = "income"
    /\ Truthy(result.amount)

----------------------------------------------------------------------------
\* rule i extracts an amount from the message and then throws
ThrowsAt(i) ==
    /\ cleaningThrows(text, rules[i])
    /\ Truthy(ruleAmount(text, sender, rules[i]))

\* the loop over the group of rule i arrives at rule i
Reached(i) ==
    /\ ~globalSkip(text, rulesOfType(rules, rules[i].transactionType))
    /\ \A j \in 1..(i - 1) :
          rules[j].transactionType = rules[i].transactionType => ~MatchesAlone(rules[j])
    /\ rules[i].transactionType = groupOrder[2] =>
          ~Truthy(tryRules(text, sender, rulesOfType(rules, groupOrder[1])).amount)

\* the rule list without rule i
Without(i) == SelectSeq(rules, LAMBDA r : r.id # i)

----------------------------------------------------------------------------
\* the number that amount pattern k of the rule captures from the body,
\* NaN also when the pattern does not match or captures nothing
NumberAt(rule, k) == parseFloat(RemoveCommas(Capture(text, rule.amountRegex[k])))

\* the amount patterns of the rule whose capture parses to a number
Yielding(rule) == {k \in DOMAIN rule.amountRegex : NumberAt(rule, k).kind = "num"}

\* the absolute value of the number of the first of those patterns, in list
\* order; NaN when there is none
RECURSIVE FirstNumberFrom(_, _)
NumberOrNext(rule, k, n) ==
    IF isNaN(n) THEN FirstNumberFrom(rule, k + 1) ELSE MathAbs(n)

FirstNumberFrom(rule, k) ==
    IF k > Len(rule.amountRegex) THEN NaN ELSE NumberOrNext(rule, k, NumberAt(rule, k))

FirstNumber(rule) == FirstNumberFrom(rule, 1)

\* the rules whose amount patterns are applied to the message
AmountTried(rule) ==
    ~isDisabled(rule) /\ senderMatches(sender, rule) /\ ~shouldSkipRule(text, rule)

\* the amount of the used rule is the absolute value of its first number
UsedAmountIsFirstNumber ==
    result.usedRule # 0 => result.amount = FirstNumber(rules[result.usedRule])

\* the rule fails exactly when none of its patterns yields a number
FailsOnlyWithoutNumber(amount, first) == ~Truthy(amount) <=> isNaN(first)

\* C26 as stated: the amount of a rule is the absolute value captured by
\* its first pattern whose group parses to a number, and the rule fails only
\* when no pattern yields a number.
C26_AmountPatternOrder_Original ==
    JustReturned =>
        /\ UsedAmountIsFirstNumber
        /\ \A i \in DOMAIN rules :
              AmountTried(rules[i]) =>
                  \E amount \in {extractAmount(text, rules[i].amountRegex, 1, Null)} :
                  \E first \in {FirstNumber(rules[i])} :
                      FailsOnlyWithoutNumber(amount, first)

\* the rule fails when no pattern yields a number or the first number is 0,
\* and extracts the first number otherwise
FirstNumberOrFails(amount, first) ==
    IF isNaN(first) \/ first = Num(0) THEN ~Truthy(amount) ELSE amount = first

\* C26 (amended): the amount patterns are tried in list order and a pattern
\* that does not match or whose capture does not parse to a number is passed
\* over; the first pattern that yields a number ends the search and the
\* amount is its absolute value; the rule fails when no pattern yields a
\* number or when that first number is 0.
C26_AmountPatternOrder ==
    JustReturned =>
        /\ UsedAmountIsFirstNumber
        /\ \A i \in DOMAIN rules :
              AmountTried(rules[i]) =>
                  \E amount \in {extractAmount(text, rules[i].amountRegex, 1, Null)} :
                  \E first \in {FirstNumber(rules[i])} :
                      FirstNumberOrFails(amount, first)

\* the first pattern of the used rule captured a word, the second a number,
\* and the number of the second was returned
C26_Witness ==
    /\ Returned
    /\ result.usedRule # 0
    /\ Len(rules[result.usedRule].amountRegex) = 2
    /\ Capture(text, rules[result.usedRule].amountRegex[1]) # <<>>
    /\ Yielding(rules[result.usedRule]) = {2}
    /\ result.amount = Num(5)

----------------------------------------------------------------------------
\* C27: the fromDate and toDate given to the scan are the bounds given to
\* the message source (so scans with different ranges ask the bridge for
\* different windows), and no message dated outside the requested range is
\* processed.
C27_DateRangeHonoured ==
    /\ window # <<>> => window = range
    /\ \A i \in 1..idx :
          range[1] <= messages[i].date /\ messages[i].date <= range[2]

----------------------------------------------------------------------------
\* C28: scanAndSaveTransactions broadcasts the batch (DATA_IMPORTED,
\* TRANSACTION_LIST_REFRESH, BALANCE_UPDATED, UI_REFRESH_NEEDED) only after
\* the write of every accepted transaction was attempted, exactly when the
\* accepted list is not empty, and so whenever a transaction of the scan was
\* written to the store.
C28_BatchBroadcast ==
    /\ broadcasts > 0 => (pc = "done" /\ saved = Len(transactions))
    /\ pc = "done" =>
          /\ broadcasts > 0 <=> Len(transactions) > 0
          /\ saved > 0 => broadcasts > 0

----------------------------------------------------------------------------
\* no two stored transactions share an id
UniqueIds == \A s, t \in txStore : s.id = t.id => s = t

\* a transaction with the id of t is stored
StoredId(t) == \E s \in txStore : s.id = t.id

\* the call failed, the store is as it was and no TRANSACTION_ADDED was sent
AddFailed ==
    /\ outcome' \in {"ConstraintError", "thrown"}
    /\ txStore' = txStore
    /\ addedEvents' = addedEvents

\* addTransaction with a stored id fails, on its own and in scan-and-save,
\* and TRANSACTION_ADDED is only sent for a record whose id was not stored
AddOfStoredIdFails ==
    /\ \A t \in TransactionPool : (AddTransactionCall(t) /\ StoredId(t)) => AddFailed
    /\ (AddTransaction /\ StoredId(transactions[saved + 1])) => AddFailed
    /\ addedEvents' # addedEvents =>
          \E t \in txStore' : ~StoredId(t) /\ txStore' = txStore \cup {t}

\* C29: after any sequence of addTransaction, updateTransaction,
\* deleteTransaction and scan-and-save no two stored transactions share an
\* id; addTransaction of an id that is already stored fails with an error,
\* leaves the stored record unchanged and broadcasts no TRANSACTION_ADDED.
C29_PrimaryKeyUnique == []UniqueIds /\ [][AddOfStoredIdFails]_vars

\* a transaction was added, and a later addTransaction with a stored id was
\* rejected
C29_Witness ==
    /\ pc = "db"
    /\ outcome = "ConstraintError"
    /\ addedEvents = 1
    /\ calls = 3
    /\ \E t \in txStore : t.id = 2 /\ t.amount = 4
    /\ Cardinality(txStore) = 2

----------------------------------------------------------------------------
\* at most 50 entries, from the newest to the oldest
BoundedNewestFirst ==
    /\ Len(history) <= HistoryLimit
    /\ \A i, j \in DOMAIN history : i < j => history[i].id > history[j].id
    /\ \A i \in DOMAIN history : history[i].id <= calls

\* an entry that is saved stands at index 0, in front of the entries that
\* were stored, of which only the oldest beyond the bound are dropped
SavedInFront ==
    history' # history =>
        /\ history'[1].id = calls'
        /\ Len(history') = (IF Len(history) < HistoryLimit
                            THEN Len(history) + 1 ELSE HistoryLimit)
        /\ \A i \in 2..Len(history') : history'[i] = history[i - 1]

\* C30: after any sequence of addScanHistoryEntry calls the stored history
\* holds at most 50 entries, the entry added last at index 0 and the others
\* from newest to oldest; when the bound is exceeded the oldest are dropped.
C30_HistoryBounded == []BoundedNewestFirst /\ [][SavedInFront]_vars

\* the history is full, its two oldest entries were dropped and the entry
\* of the last call is in front
C30_Witness ==
    /\ Len(history) = HistoryLimit
    /\ calls = HistoryLimit + 2
    /\ history[1].id = calls
    /\ history[HistoryLimit].id = 3

====
